---------------------------- MODULE Spec2Model ----------------------------
(***************************************************************************)
(* Model of scripts/traefik_manager.py: the interactive Traefik setup      *)
(* script.  One run of main() is a sequence of steps (pc); the host (file  *)
(* system, Docker networks, containers) persists between runs, and every   *)
(* run that deploys the test page leaves a detached cleanup process        *)
(* behind.  External commands are the environment: each one either          *)
(* succeeds ("ok"), exits non-zero ("fail") or cannot be started            *)
(* ("nostart").                                                             *)
(***************************************************************************)
EXTENDS Integers, Sequences, FiniteSets, TLC

(* ------------------------------ bounds -------------------------------- *)
MaxRuns == 2
TickSeconds == 600

(* ------------------------- program constants -------------------------- *)
TRAEFIK_BASE_PATH == "/opt/traefik"
TRAEFIK_CERTS_PATH == TRAEFIK_BASE_PATH \o "/certs"
TRAEFIK_DYNAMIC_PATH == TRAEFIK_BASE_PATH \o "/dynamic"
HTPASSWD_FILE == TRAEFIK_BASE_PATH \o "/.htpasswd"
COMPOSE_FILE == TRAEFIK_BASE_PATH \o "/docker-compose.yml"
TLS_FILE == TRAEFIK_DYNAMIC_PATH \o "/tls.yaml"
TEST_COMPOSE_PATH == "/tmp/traefik_test_page"
TEST_SCRIPT_PATH == "/tmp/remove_test_page.sh"

LOCAL_KEY == TRAEFIK_CERTS_PATH \o "/local.key"
LOCAL_CRT == TRAEFIK_CERTS_PATH \o "/local.crt"
TEST_INDEX_FILE == TEST_COMPOSE_PATH \o "/index.html"
TEST_COMPOSE_FILE == TEST_COMPOSE_PATH \o "/docker-compose-test.yml"
SleepSeconds == 600

(* ------------------------------ inputs -------------------------------- *)
(* What the user types at each prompt, after .strip().                     *)
ChoiceInputs == {"1", "2", "3", ""}
DomainInputs == {"", "example.com"}
EmailInputs == {""}
CfEmailInputs == {"cf@example.com"}
CfTokenInputs == {"cf-token"}
UserInputs == {""}
PasswordInputs == {""}

(* Outcomes of an external command.                                        *)
Outcomes == {"ok", "fail", "nostart"}

(* Docker network names are character sequences, so that the substring    *)
(* test of setup_docker_network can be computed.                           *)
N_TRAEFIK == <<"t","r","a","e","f","i","k">>
N_PROXY == <<"p","r","o","x","y">>
N_BRIDGE == <<"b","r","i","d","g","e">>
N_TRAEFIK_DEFAULT == N_TRAEFIK \o <<"_","d","e","f","a","u","l","t">>
InitialNetworkSets == {{N_BRIDGE}, {N_BRIDGE, N_TRAEFIK_DEFAULT}}

(* ------------------------------ state --------------------------------- *)
VARIABLES
    pc,              \* position of the current run in main()
    run,             \* number of the current run of the script
    trace,           \* what the current run has done so far, in order
    lastCmd,         \* the external command most recently invoked by the run
    resolver_choice, domain, email, cf_email, cf_token,   \* locals of main()
    user, password,  \* locals of create_htpasswd()
    fs,              \* paths that exist on the host
    scriptExec,      \* TEST_SCRIPT_PATH has its executable bit set
    htpasswdFile,    \* content of HTPASSWD_FILE
    composeFile,     \* content of COMPOSE_FILE (sequence of lines)
    testComposeFile, \* content of TEST_COMPOSE_FILE (sequence of lines)
    networks,        \* Docker networks on the host
    containers,      \* running containers of the test page
    cleanup,         \* detached cleanup process launched by each run
    summary          \* what display_final_info printed in the current run

vars == <<pc, run, trace, lastCmd, resolver_choice, domain, email, cf_email,
          cf_token, user, password, fs, scriptExec, htpasswdFile, composeFile, testComposeFile,
          networks, containers, cleanup, summary>>

inputVars == <<resolver_choice, domain, email, cf_email, cf_token>>
hostVars == <<fs, scriptExec, htpasswdFile, composeFile, testComposeFile,
              networks, containers, cleanup>>

Runs == 1..MaxRuns
NoCmd == [name |-> "none", via |-> "none", outcome |-> "ok", logged |-> "none", raised |-> FALSE]
NoCleanup == [pc |-> "none", remaining |-> 0]

(* One entry of the run's history: a prompt, an external command, a file   *)
(* or directory written, a message printed for the branch taken, or an     *)
(* exception that left main().                                             *)
Ev(kind, name) == [kind |-> kind, name |-> name]
LogIf(cond, msg) == IF cond THEN <<Ev("log", msg)>> ELSE << >>
LogIfNot(cond, msg) == LogIf(~cond, msg)

(* ------------------------- main()'s call order ------------------------ *)
(* main() with create_dynamic_tls called before create_htpasswd.           *)
MainOrder_TlsBeforeHtpasswd ==
    << "check_docker", "ensure_dirs", "ask_for_resolver",
       "create_self_signed_cert", "create_dynamic_tls", "create_htpasswd",
       "create_docker_compose", "create_test_compose", "setup_docker_network",
       "deploy_traefik", "deploy_test_page", "display_final_info" >>

MainOrder ==
    << "check_docker", "ensure_dirs", "ask_for_resolver",
       "create_self_signed_cert", "create_htpasswd", "create_dynamic_tls",
       "create_docker_compose", "create_test_compose", "setup_docker_network",
       "deploy_traefik", "deploy_test_page", "display_final_info" >>

IndexOf(fn) == CHOOSE i \in 1..Len(MainOrder) : MainOrder[i] = fn

(* Where main() continues when fn returns.                                 *)
Return(fn) ==
    IF IndexOf(fn) = Len(MainOrder) THEN "done" ELSE MainOrder[IndexOf(fn) + 1]

(* ---------------------- running external commands --------------------- *)
(* run_command without its `except Exception` clause.                      *)
run_command_NoCatchAll(outcome) ==
    [ ret    |-> outcome = "ok",
      logged |-> IF outcome = "fail" THEN "Command failed" ELSE "none",
      raised |-> outcome = "nostart" ]

(* run_command: subprocess.run(check=True) inside try/except.              *)
run_command(outcome) ==
    [ ret    |-> outcome = "ok",
      logged |-> IF outcome = "ok" THEN "none"
                 ELSE IF outcome = "fail" THEN "Command failed"
                 ELSE "Unexpected error",
      raised |-> FALSE ]

(* A bare subprocess.run(...) without check=True and without try/except.   *)
subprocess_run(outcome) ==
    [ ret    |-> outcome = "ok",
      logged |-> "none",
      raised |-> outcome = "nostart" ]

Cmd(name, via, outcome, r) ==
    [name |-> name, via |-> via, outcome |-> outcome, logged |-> r.logged, raised |-> r.raised]

(* deploy_test_page scheduling the removal outside the `if`.               *)
IfDeployed_Always(ok, next) == next

(* `if run_command(compose_cmd):` in deploy_test_page: the removal is      *)
(* scheduled inside the branch, and the function returns otherwise.        *)
IfDeployed(ok, next) == IF ok THEN next ELSE Return("deploy_test_page")

(* A precondition check whose result is ignored.                           *)
ExitIfNot_Ignored(ok, next) == next

(* `if not run_command(...): sys.exit(1)`                                  *)
ExitIfNot(ok, next) == IF ok THEN next ELSE "exit1"

(* An exception that escapes the call ends main() with a traceback.        *)
After(r, next) == IF r.raised THEN "crashed" ELSE next

Init ==
    /\ pc = MainOrder[1]
    /\ run = 1
    /\ trace = << >>
    /\ lastCmd = NoCmd
    /\ resolver_choice = "" /\ domain = "" /\ email = ""
    /\ cf_email = "None" /\ cf_token = "None"
    /\ user = "" /\ password = ""
    /\ fs = {}
    /\ scriptExec = FALSE
    /\ htpasswdFile = ""
    /\ composeFile = << >>
    /\ testComposeFile = << >>
    /\ networks \in InitialNetworkSets
    /\ containers = {}
    /\ cleanup = [r \in Runs |-> NoCleanup]
    /\ summary = << >>

(* ----------------------------- check_docker --------------------------- *)
CheckDockerVersion ==
    /\ pc = "check_docker"
    /\ \E o \in Outcomes :
         LET r == run_command(o) IN
         /\ lastCmd' = Cmd("docker --version", "run_command", o, r)
         /\ trace' = trace \o <<Ev("cmd", "docker --version")>>
                      \o LogIfNot(r.ret, "Docker is not installed")
         /\ pc' = After(r, ExitIfNot(r.ret, "check_docker:info"))
    /\ UNCHANGED <<run, inputVars, user, password, hostVars, summary>>

CheckDockerInfo ==
    /\ pc = "check_docker:info"
    /\ \E o \in Outcomes :
         LET r == run_command(o) IN
         /\ lastCmd' = Cmd("docker info", "run_command", o, r)
         /\ trace' = trace \o <<Ev("cmd", "docker info")>>
                      \o LogIfNot(r.ret, "Docker daemon is not running")
         /\ pc' = After(r, ExitIfNot(r.ret, Return("check_docker")))
    /\ UNCHANGED <<run, inputVars, user, password, hostVars, summary>>

(* ------------------------------ ensure_dirs --------------------------- *)
ensure_dirs ==
    /\ pc = "ensure_dirs"
    /\ fs' = fs \cup {TRAEFIK_BASE_PATH, TRAEFIK_CERTS_PATH, TRAEFIK_DYNAMIC_PATH}
    /\ trace' = Append(trace, Ev("mkdir", TRAEFIK_BASE_PATH))
    /\ pc' = Return("ensure_dirs")
    /\ UNCHANGED <<run, lastCmd, inputVars, user, password, scriptExec, htpasswdFile,
                   composeFile, testComposeFile, networks, containers, cleanup, summary>>

(* ---------------------------- ask_for_resolver ------------------------ *)
ask_for_resolver ==
    /\ pc = "ask_for_resolver"
    /\ \E c \in ChoiceInputs, d \in DomainInputs, e \in EmailInputs,
          ce \in CfEmailInputs, ct \in CfTokenInputs :
         LET asksDomain == c \in {"2", "3"}
             exits      == asksDomain /\ d = ""
             p1 == <<Ev("prompt", "resolver")>>
             p2 == IF asksDomain THEN <<Ev("prompt", "domain")>> ELSE << >>
             p3 == IF asksDomain /\ ~exits THEN <<Ev("prompt", "email")>> ELSE << >>
             p4 == IF c = "3" /\ ~exits
                   THEN <<Ev("prompt", "cloudflare email"),
                          Ev("prompt", "cloudflare token")>>
                   ELSE << >>
         IN
         /\ trace' = trace \o p1 \o p2 \o p3 \o p4
                      \o LogIfNot(~exits, "Domain name required")
         /\ resolver_choice' = c
         /\ domain' = IF asksDomain THEN d ELSE "docker.localhost"
         /\ email' = IF asksDomain /\ ~exits
                     THEN (IF e = "" THEN "admin@" \o d ELSE e)
                     ELSE "admin@docker.localhost"
         /\ cf_email' = IF c = "3" /\ ~exits THEN ce ELSE "None"
         /\ cf_token' = IF c = "3" /\ ~exits THEN ct ELSE "None"
         /\ pc' = IF exits THEN "exit1" ELSE Return("ask_for_resolver")
    /\ UNCHANGED <<run, lastCmd, user, password, hostVars, summary>>

(* ------------------------- create_self_signed_cert -------------------- *)
create_self_signed_cert ==
    /\ pc = "create_self_signed_cert"
    /\ \E o \in Outcomes :
         LET r == run_command(o) IN
         /\ lastCmd' = Cmd("openssl req", "run_command", o, r)
         /\ trace' = Append(trace, Ev("cmd", "openssl req"))
         /\ fs' = IF r.ret THEN fs \cup {LOCAL_KEY, LOCAL_CRT} ELSE fs
         /\ pc' = After(r, Return("create_self_signed_cert"))
    /\ UNCHANGED <<run, inputVars, user, password, scriptExec, htpasswdFile, composeFile,
                   testComposeFile, networks, containers, cleanup, summary>>

(* ------------------------------ create_htpasswd ----------------------- *)
CreateHtpasswdPrompt ==
    /\ pc = "create_htpasswd"
    /\ \E u \in UserInputs, p \in PasswordInputs :
         /\ user' = IF u = "" THEN "admin" ELSE u
         /\ password' = IF p = "" THEN "P@ssw0rd" ELSE p
    /\ trace' = trace \o <<Ev("prompt", "dashboard username"),
                           Ev("prompt", "dashboard password")>>
    /\ pc' = "create_htpasswd:which"
    /\ UNCHANGED <<run, lastCmd, inputVars, hostVars, summary>>

CreateHtpasswdWhich ==
    /\ pc = "create_htpasswd:which"
    /\ \E o \in Outcomes :
         LET r == run_command(o) IN
         /\ lastCmd' = Cmd("which htpasswd", "run_command", o, r)
         /\ trace' = trace \o <<Ev("cmd", "which htpasswd")>>
                      \o LogIfNot(r.ret, "htpasswd not found")
         /\ pc' = After(r, ExitIfNot(r.ret, "create_htpasswd:generate"))
    /\ UNCHANGED <<run, inputVars, user, password, hostVars, summary>>

(* stdout of `htpasswd -nb user 'password' | sed ...`, stripped.           *)
HtpasswdStdout(o, u, p) == IF o = "ok" THEN u \o ":hash(" \o p \o ")" ELSE ""

CreateHtpasswdGenerate ==
    /\ pc = "create_htpasswd:generate"
    /\ \E o \in Outcomes :
         LET r == subprocess_run(o) IN
         /\ lastCmd' = Cmd("htpasswd -nb", "subprocess.run", o, r)
         /\ IF r.raised
            THEN /\ trace' = Append(trace, Ev("raise", "htpasswd -nb"))
                 /\ pc' = "crashed"
                 /\ UNCHANGED <<fs, htpasswdFile>>
            ELSE /\ trace' = trace \o <<Ev("cmd", "htpasswd -nb"),
                                        Ev("write", HTPASSWD_FILE)>>
                 /\ fs' = fs \cup {HTPASSWD_FILE}
                 /\ htpasswdFile' = HtpasswdStdout(o, user, password)
                 /\ pc' = Return("create_htpasswd")
    /\ UNCHANGED <<run, inputVars, user, password, scriptExec, composeFile,
                   testComposeFile, networks, containers, cleanup, summary>>

(* ----------------------------- create_dynamic_tls --------------------- *)
create_dynamic_tls ==
    /\ pc = "create_dynamic_tls"
    /\ fs' = fs \cup {TLS_FILE}
    /\ trace' = Append(trace, Ev("write", TLS_FILE))
    /\ pc' = Return("create_dynamic_tls")
    /\ UNCHANGED <<run, lastCmd, inputVars, user, password, scriptExec, htpasswdFile,
                   composeFile, testComposeFile, networks, containers, cleanup, summary>>

(* ---------------------------- create_docker_compose ------------------- *)
(* A compose file is a sequence of lines <<section, key, value>>.          *)
(* resolver_config with `else` in place of `elif resolver_choice == "3"`.  *)
resolver_config_ElseCloudflare(choice, em, cfe, cft) ==
    IF choice = "2" THEN
      << <<"command", "--certificatesresolvers.le.acme.email", em>>,
         <<"command", "--certificatesresolvers.le.acme.storage", "/letsencrypt/acme.json">>,
         <<"command", "--certificatesresolvers.le.acme.httpchallenge.entrypoint", "web">>,
         <<"command", "--entrypoints.websecure.http.tls.certresolver", "le">> >>
    ELSE
      << <<"command", "--certificatesresolvers.cf.acme.email", em>>,
         <<"command", "--certificatesresolvers.cf.acme.storage", "/letsencrypt/acme.json">>,
         <<"command", "--certificatesresolvers.cf.acme.dnschallenge.provider", "cloudflare">>,
         <<"command", "--certificatesresolvers.cf.acme.dnschallenge.delaybeforecheck", "0">>,
         <<"command", "--entrypoints.websecure.http.tls.certresolver", "cf">>,
         <<"environment", "CF_API_EMAIL", cfe>>,
         <<"environment", "CF_DNS_API_TOKEN", cft>> >>

resolver_config(choice, em, cfe, cft) ==
    IF choice = "2" THEN
      << <<"command", "--certificatesresolvers.le.acme.email", em>>,
         <<"command", "--certificatesresolvers.le.acme.storage", "/letsencrypt/acme.json">>,
         <<"command", "--certificatesresolvers.le.acme.httpchallenge.entrypoint", "web">>,
         <<"command", "--entrypoints.websecure.http.tls.certresolver", "le">> >>
    ELSE IF choice = "3" THEN
      << <<"command", "--certificatesresolvers.cf.acme.email", em>>,
         <<"command", "--certificatesresolvers.cf.acme.storage", "/letsencrypt/acme.json">>,
         <<"command", "--certificatesresolvers.cf.acme.dnschallenge.provider", "cloudflare">>,
         <<"command", "--certificatesresolvers.cf.acme.dnschallenge.delaybeforecheck", "0">>,
         <<"command", "--entrypoints.websecure.http.tls.certresolver", "cf">>,
         <<"environment", "CF_API_EMAIL", cfe>>,
         <<"environment", "CF_DNS_API_TOKEN", cft>> >>
    ELSE << >>

compose(choice, dom, em, cfe, cft, auth_hash) ==
    << <<"services.traefik", "image", "traefik:v3.4">>,
       <<"services.traefik.networks", "-", "proxy">>,
       <<"volumes", "./certs", "/certs:ro">>,
       <<"volumes", "./dynamic", "/dynamic:ro">>,
       <<"volumes", "./letsencrypt", "/letsencrypt">>,
       <<"command", "--entrypoints.websecure.http.tls", "true">>,
       <<"command", "--providers.file.filename", "/dynamic/tls.yaml">>,
       <<"command", "--providers.docker.network", "proxy">> >>
    \o resolver_config(choice, em, cfe, cft) \o
    << <<"labels", "traefik.http.routers.dashboard.rule", "traefik." \o dom>>,
       <<"labels", "traefik.http.middlewares.dashboard-auth.basicauth.users", auth_hash>>,
       <<"networks.proxy", "name", "proxy">> >>

create_docker_compose ==
    /\ pc = "create_docker_compose"
    /\ composeFile' = compose(resolver_choice, domain, email, cf_email, cf_token, htpasswdFile)
    /\ fs' = fs \cup {COMPOSE_FILE}
    /\ trace' = Append(trace, Ev("write", COMPOSE_FILE))
    /\ pc' = Return("create_docker_compose")
    /\ UNCHANGED <<run, lastCmd, inputVars, user, password, scriptExec, htpasswdFile,
                   testComposeFile, networks, containers, cleanup, summary>>

(* ----------------------------- create_test_compose -------------------- *)
test_compose(dom) ==
    << <<"services.nginx-test", "image", "nginx:latest">>,
       <<"services.nginx-test.networks", "-", "traefik">>,
       <<"volumes", TEST_COMPOSE_PATH, "/usr/share/nginx/html:ro">>,
       <<"labels", "traefik.http.routers.nginx-test.rule", "test." \o dom>>,
       <<"networks.traefik", "external", "true">>,
       <<"networks.traefik", "name", "traefik">> >>

CreateTestComposeMkdir ==
    /\ pc = "create_test_compose"
    /\ IF domain = ""
       THEN /\ pc' = Return("create_test_compose")
            /\ UNCHANGED <<fs, trace>>
       ELSE /\ fs' = fs \cup {TEST_COMPOSE_PATH}
            /\ trace' = Append(trace, Ev("mkdir", TEST_COMPOSE_PATH))
            /\ pc' = "create_test_compose:index"
    /\ UNCHANGED <<run, lastCmd, inputVars, user, password, scriptExec, htpasswdFile,
                   composeFile, testComposeFile, networks, containers, cleanup, summary>>

(* open(..., "w") raises FileNotFoundError when the directory is gone.     *)
CreateTestComposeIndex ==
    /\ pc = "create_test_compose:index"
    /\ IF TEST_COMPOSE_PATH \in fs
       THEN /\ fs' = fs \cup {TEST_INDEX_FILE}
            /\ trace' = Append(trace, Ev("write", TEST_INDEX_FILE))
            /\ pc' = "create_test_compose:compose"
       ELSE /\ trace' = Append(trace, Ev("raise", TEST_INDEX_FILE))
            /\ pc' = "crashed"
            /\ UNCHANGED fs
    /\ UNCHANGED <<run, lastCmd, inputVars, user, password, scriptExec, htpasswdFile,
                   composeFile, testComposeFile, networks, containers, cleanup, summary>>

CreateTestComposeFile ==
    /\ pc = "create_test_compose:compose"
    /\ IF TEST_COMPOSE_PATH \in fs
       THEN /\ fs' = fs \cup {TEST_COMPOSE_FILE}
            /\ testComposeFile' = test_compose(domain)
            /\ trace' = Append(trace, Ev("write", TEST_COMPOSE_FILE))
            /\ pc' = Return("create_test_compose")
       ELSE /\ trace' = Append(trace, Ev("raise", TEST_COMPOSE_FILE))
            /\ pc' = "crashed"
            /\ UNCHANGED <<fs, testComposeFile>>
    /\ UNCHANGED <<run, lastCmd, inputVars, user, password, scriptExec, htpasswdFile,
                   composeFile, networks, containers, cleanup, summary>>

(* ---------------------------- setup_docker_network -------------------- *)
RECURSIVE JoinLines(_)
(* The names of a set of networks, one per line, as `docker network ls     *)
(* --format {{.Name}}` prints them.                                        *)
JoinLines(S) ==
    IF S = {} THEN << >>
    ELSE LET n == CHOOSE x \in S : TRUE
         IN n \o <<"\n">> \o JoinLines(S \ {n})

(* Python's `needle in haystack` on strings: substring search.             *)
Contains(needle, haystack) ==
    \E i \in 1..(Len(haystack) - Len(needle) + 1) :
        SubSeq(haystack, i, i + Len(needle) - 1) = needle

(* The network a name written in a compose file or on a command line       *)
(* denotes.                                                                 *)
NetName(s) ==
    IF s = "traefik" THEN N_TRAEFIK
    ELSE IF s = "proxy" THEN N_PROXY
    ELSE N_BRIDGE

SetupNetworkLs ==
    /\ pc = "setup_docker_network"
    /\ \E o \in Outcomes :
         LET r == subprocess_run(o)
             out == IF r.ret THEN JoinLines(networks) ELSE << >>
         IN
         /\ lastCmd' = Cmd("docker network ls", "subprocess.run", o, r)
         /\ IF r.raised
            THEN /\ trace' = Append(trace, Ev("raise", "docker network ls"))
                 /\ pc' = "crashed"
            ELSE /\ IF ~Contains(NetName("traefik"), out)
                    THEN /\ trace' = Append(trace, Ev("cmd", "docker network ls"))
                         /\ pc' = "setup_docker_network:create"
                    ELSE /\ trace' = trace \o <<Ev("cmd", "docker network ls"),
                                                Ev("log", "Docker network 'traefik' already exists")>>
                         /\ pc' = Return("setup_docker_network")
    /\ UNCHANGED <<run, inputVars, user, password, hostVars, summary>>

(* `docker network create` refuses a name that is already taken.           *)
SetupNetworkCreate ==
    /\ pc = "setup_docker_network:create"
    /\ \E o \in Outcomes :
         LET r == run_command(o) IN
         /\ (o = "ok") => (NetName("traefik") \notin networks)
         /\ lastCmd' = Cmd("docker network create", "run_command", o, r)
         /\ trace' = trace \o <<Ev("cmd", "docker network create")>>
                      \o LogIf(r.ret, "Docker network 'traefik' created")
         /\ networks' = IF r.ret THEN networks \cup {NetName("traefik")} ELSE networks
         /\ pc' = After(r, Return("setup_docker_network"))
    /\ UNCHANGED <<run, inputVars, user, password, fs, scriptExec, htpasswdFile,
                   composeFile, testComposeFile, containers, cleanup, summary>>

(* -------------------------------- deploy_traefik ---------------------- *)
(* Networks a compose file declares external must exist for `up` to        *)
(* succeed.                                                                *)
ExternalNetworks(file) ==
    {NetName(n) : n \in {file[i][3] : i \in {j \in 1..Len(file) :
          /\ file[j][2] = "name"
          /\ <<file[j][1], "external", "true">> \in {file[k] : k \in 1..Len(file)}}}}

(* `up` needs the compose file.  What it changes on the host for the      *)
(* Traefik service (its container, the network the file defines) is read   *)
(* by no later step of the script or of the removal script, and is not     *)
(* part of the state.                                                      *)
deploy_traefik ==
    /\ pc = "deploy_traefik"
    /\ \E o \in Outcomes :
         LET r == run_command(o) IN
         /\ (o = "ok") => (COMPOSE_FILE \in fs)
         /\ lastCmd' = Cmd("compose up traefik", "run_command", o, r)
         /\ trace' = trace \o <<Ev("cmd", "compose up traefik")>>
         /\ pc' = After(r, Return("deploy_traefik"))
    /\ UNCHANGED <<run, inputVars, user, password, hostVars, summary>>

(* ------------------------------- deploy_test_page --------------------- *)
DeployTestPageUp ==
    /\ pc = "deploy_test_page"
    /\ IF domain = ""
       THEN /\ pc' = Return("deploy_test_page")
            /\ UNCHANGED <<lastCmd, trace, containers>>
       ELSE \E o \in Outcomes :
              LET r == run_command(o) IN
              /\ (o = "ok") => /\ TEST_COMPOSE_FILE \in fs
                               /\ ExternalNetworks(testComposeFile) \subseteq networks
              /\ lastCmd' = Cmd("compose up test", "run_command", o, r)
              /\ trace' = trace \o <<Ev("cmd", "compose up test")>>
                           \o LogIf(r.ret, "Test page deployed")
              /\ containers' = IF r.ret THEN containers \cup {"nginx-test"} ELSE containers
              /\ pc' = After(r, IfDeployed(r.ret, "deploy_test_page:script"))
    /\ UNCHANGED <<run, inputVars, user, password, fs, scriptExec, htpasswdFile,
                   composeFile, testComposeFile, networks, cleanup, summary>>

(* open(TEST_SCRIPT_PATH, "w"): a new file is not executable, an existing  *)
(* one keeps its mode.                                                     *)
DeployTestPageScript ==
    /\ pc = "deploy_test_page:script"
    /\ fs' = fs \cup {TEST_SCRIPT_PATH}
    /\ scriptExec' = (TEST_SCRIPT_PATH \in fs /\ scriptExec)
    /\ trace' = Append(trace, Ev("write", TEST_SCRIPT_PATH))
    /\ pc' = "deploy_test_page:chmod"
    /\ UNCHANGED <<run, lastCmd, inputVars, user, password, htpasswdFile, composeFile,
                   testComposeFile, networks, containers, cleanup, summary>>

DeployTestPageChmod ==
    /\ pc = "deploy_test_page:chmod"
    /\ \E o \in Outcomes :
         LET r == run_command(o) IN
         /\ (o = "ok") => (TEST_SCRIPT_PATH \in fs)
         /\ lastCmd' = Cmd("chmod +x", "run_command", o, r)
         /\ trace' = Append(trace, Ev("cmd", "chmod +x"))
         /\ scriptExec' = (scriptExec \/ r.ret)
         /\ pc' = After(r, "deploy_test_page:nohup")
    /\ UNCHANGED <<run, inputVars, user, password, fs, htpasswdFile, composeFile,
                   testComposeFile, networks, containers, cleanup, summary>>

(* `nohup script > /dev/null 2>&1 &`: the shell backgrounds the job and    *)
(* exits 0 whether or not the script could be executed; the cleanup        *)
(* process exists only if the script is there and executable.              *)
DeployTestPageNohup ==
    /\ pc = "deploy_test_page:nohup"
    /\ \E o \in {"ok", "nostart"} :
         LET r == run_command(o)
             started == r.ret /\ TEST_SCRIPT_PATH \in fs /\ scriptExec
         IN
         /\ lastCmd' = Cmd("nohup", "run_command", o, r)
         /\ trace' = Append(trace, Ev("cmd", "nohup"))
         /\ cleanup' = IF started
                       THEN [cleanup EXCEPT ![run] = [pc |-> "sleeping", remaining |-> SleepSeconds]]
                       ELSE cleanup
         /\ pc' = After(r, Return("deploy_test_page"))
    /\ UNCHANGED <<run, inputVars, user, password, fs, scriptExec, htpasswdFile,
                   composeFile, testComposeFile, networks, containers, summary>>

(* ------------------------------ display_final_info -------------------- *)
display_final_info ==
    /\ pc = "display_final_info"
    /\ summary' = << <<"Docker network", "traefik">> >>
                  \o (IF domain # ""
                      THEN << <<"Your test page is available at", "test." \o domain>> >>
                      ELSE << <<"No test domain provided", "only Traefik is running">> >>)
    /\ trace' = Append(trace, Ev("log", "summary"))
    /\ pc' = Return("display_final_info")
    /\ UNCHANGED <<run, lastCmd, inputVars, user, password, hostVars>>

(* ------------------------ the script is run again --------------------- *)
Terminated == pc \in {"done", "exit1", "crashed"}

StartRun ==
    /\ Terminated
    /\ run < MaxRuns
    /\ run' = run + 1
    /\ pc' = MainOrder[1]
    /\ trace' = << >>
    /\ lastCmd' = NoCmd
    /\ resolver_choice' = "" /\ domain' = "" /\ email' = ""
    /\ cf_email' = "None" /\ cf_token' = "None"
    /\ user' = "" /\ password' = ""
    /\ summary' = << >>
    /\ UNCHANGED hostVars

(* ------------------- the detached removal script ---------------------- *)
Max(a, b) == IF a > b THEN a ELSE b

(* Time passes for every sleeping cleanup process.                         *)
Tick ==
    /\ \E r \in Runs : cleanup[r].pc = "sleeping" /\ cleanup[r].remaining > 0
    /\ cleanup' = [r \in Runs |->
                     IF cleanup[r].pc = "sleeping"
                     THEN [cleanup[r] EXCEPT !.remaining = Max(0, @ - TickSeconds)]
                     ELSE cleanup[r]]
    /\ UNCHANGED <<pc, run, trace, lastCmd, inputVars, user, password, fs, scriptExec,
                   htpasswdFile, composeFile, testComposeFile, networks, containers, summary>>

(* sleep 600 returns, and then                                             *)
(* docker compose -f /tmp/traefik_test_page/docker-compose-test.yml down   *)
CleanupDown(r) ==
    /\ cleanup[r].pc = "sleeping"
    /\ cleanup[r].remaining = 0
    /\ \E o \in {"ok", "fail"} :
         /\ (o = "ok") => (TEST_COMPOSE_FILE \in fs)
         /\ containers' = IF o = "ok" THEN containers \ {"nginx-test"} ELSE containers
    /\ cleanup' = [cleanup EXCEPT ![r].pc = "rm_dir"]
    /\ UNCHANGED <<pc, run, trace, lastCmd, inputVars, user, password, fs, scriptExec,
                   htpasswdFile, composeFile, testComposeFile, networks, summary>>

(* rm -rf /tmp/traefik_test_page                                           *)
CleanupRmDir(r) ==
    /\ cleanup[r].pc = "rm_dir"
    /\ fs' = fs \ {TEST_COMPOSE_PATH, TEST_INDEX_FILE, TEST_COMPOSE_FILE}
    /\ testComposeFile' = << >>
    /\ cleanup' = [cleanup EXCEPT ![r].pc = "rm_script"]
    /\ UNCHANGED <<pc, run, trace, lastCmd, inputVars, user, password, scriptExec,
                   htpasswdFile, composeFile, networks, containers, summary>>

(* rm -f /tmp/remove_test_page.sh                                          *)
CleanupRmScript(r) ==
    /\ cleanup[r].pc = "rm_script"
    /\ fs' = fs \ {TEST_SCRIPT_PATH}
    /\ scriptExec' = FALSE
    /\ cleanup' = [cleanup EXCEPT ![r].pc = "done"]
    /\ UNCHANGED <<pc, run, trace, lastCmd, inputVars, user, password, htpasswdFile,
                   composeFile, testComposeFile, networks, containers, summary>>

CleanupStep(r) ==
    CleanupDown(r) \/ CleanupRmDir(r) \/ CleanupRmScript(r)

Next ==
    \/ CheckDockerVersion \/ CheckDockerInfo
    \/ ensure_dirs
    \/ ask_for_resolver
    \/ create_self_signed_cert
    \/ CreateHtpasswdPrompt \/ CreateHtpasswdWhich \/ CreateHtpasswdGenerate
    \/ create_dynamic_tls
    \/ create_docker_compose
    \/ CreateTestComposeMkdir \/ CreateTestComposeIndex \/ CreateTestComposeFile
    \/ SetupNetworkLs \/ SetupNetworkCreate
    \/ deploy_traefik
    \/ DeployTestPageUp \/ DeployTestPageScript \/ DeployTestPageChmod
    \/ DeployTestPageNohup
    \/ display_final_info
    \/ StartRun
    \/ Tick
    \/ \E r \in Runs : CleanupStep(r)

Spec == Init /\ [][Next]_vars

(* The operating system keeps scheduling the detached removal script and   *)
(* its sleep runs out.                                                     *)
FairSpec ==
    /\ Spec
    /\ WF_vars(Tick)
    /\ \A r \in Runs : WF_vars(CleanupStep(r))

(***************************************************************************)
(*                              Properties                                 *)
(***************************************************************************)
TraceIdx == 1..Len(trace)
Has(e) == \E i \in TraceIdx : trace[i] = e
Lines(file) == {file[i] : i \in 1..Len(file)}
Keys(file, section) == {l[2] : l \in {m \in Lines(file) : m[1] = section}}

(* The host path of a bind mount written relative to the compose file.     *)
HostPath(rel) ==
    IF rel = "./certs" THEN TRAEFIK_BASE_PATH \o "/certs"
    ELSE IF rel = "./dynamic" THEN TRAEFIK_BASE_PATH \o "/dynamic"
    ELSE TRAEFIK_BASE_PATH \o "/letsencrypt"

(* Host paths docker-compose.yml refers to: its bind mounts, the file      *)
(* provider's tls.yaml, and the certificate pair tls.yaml names.           *)
ReferencedPaths(file) ==
    {HostPath(v) : v \in Keys(file, "volumes")} \cup {TLS_FILE, LOCAL_CRT, LOCAL_KEY}

(* C1: when main is about to invoke `docker compose up -d` for Traefik,    *)
(* every host path the compose file references exists.                     *)
C1_PathsExistAtDeploy ==
    (pc = "deploy_traefik") => (ReferencedPaths(composeFile) \subseteq fs)

FatalChecks == {"docker --version", "docker info", "which htpasswd"}
FatalMessages == {"Docker is not installed", "Docker daemon is not running",
                  "Domain name required", "htpasswd not found"}
FatalFailed ==
    \/ lastCmd.name \in FatalChecks /\ lastCmd.outcome # "ok"
    \/ resolver_choice \in {"2", "3"} /\ domain = ""

(* C2: a failed fatal precondition (Docker missing, daemon down, empty     *)
(* domain for choice 2 or 3, htpasswd missing) ends the run with status 1  *)
(* at its check: the error message is the last thing the run did, and the  *)
(* run wrote no docker-compose.yml, created no network and invoked no      *)
(* `docker compose up -d`.                                                 *)
C2_FatalEndsRun ==
    FatalFailed =>
        /\ pc = "exit1"
        /\ trace[Len(trace)].kind = "log"
        /\ trace[Len(trace)].name \in FatalMessages
        /\ ~Has(Ev("write", COMPOSE_FILE))
        /\ ~Has(Ev("cmd", "docker network create"))
        /\ ~Has(Ev("cmd", "compose up traefik"))
        /\ ~Has(Ev("cmd", "compose up test"))

C2_Witness ==
    /\ pc = "exit1"
    /\ lastCmd.name = "which htpasswd"
    /\ lastCmd.outcome = "fail"
    /\ COMPOSE_FILE \in fs

(* The step of the flat procedure an entry of the history belongs to, as   *)
(* the code orders them; 0 for messages and exceptions.                    *)
CodePhase(e) ==
    IF e.kind = "cmd" /\ e.name \in {"docker --version", "docker info"} THEN 1
    ELSE IF e.kind = "prompt" THEN 2
    ELSE IF e.kind = "mkdir" /\ e.name = TRAEFIK_BASE_PATH THEN 2
    ELSE IF e.kind = "cmd" /\ e.name \in {"openssl req", "which htpasswd", "htpasswd -nb"} THEN 2
    ELSE IF e.kind = "write" /\ e.name = HTPASSWD_FILE THEN 2
    ELSE IF e.kind = "write" /\ e.name \in {TLS_FILE, COMPOSE_FILE, TEST_INDEX_FILE, TEST_COMPOSE_FILE} THEN 3
    ELSE IF e.kind = "mkdir" THEN 3
    ELSE IF e.kind = "cmd" /\ e.name \in {"docker network ls", "docker network create"} THEN 4
    ELSE IF e.kind = "cmd" /\ e.name = "compose up traefik" THEN 5
    ELSE IF e.kind = "cmd" /\ e.name \in {"compose up test", "chmod +x", "nohup"} THEN 6
    ELSE IF e.kind = "write" /\ e.name = TEST_SCRIPT_PATH THEN 6
    ELSE 0

(* The same, as the specification orders them: (a) input, (b) Docker       *)
(* check, (c) files, (d) network, (e) up, (f) cleanup.                     *)
SpecPhase(e) ==
    IF e.kind = "prompt" THEN 1
    ELSE IF CodePhase(e) = 1 THEN 2
    ELSE IF CodePhase(e) \in {2, 3} THEN 3
    ELSE CodePhase(e)

(* C3 as stated: input, Docker check, files, network, up, cleanup, in      *)
(* this order; no prompt after the Docker check or after a file is written.*)
C3_InputFirst ==
    \A ph \in {[i \in TraceIdx |-> SpecPhase(trace[i])]} :
        \A j \in TraceIdx : \A i \in 1..(j - 1) :
            (ph[i] # 0 /\ ph[j] # 0) => ph[i] <= ph[j]

(* C3 amended: the Docker check comes first; then the prompts, interleaved *)
(* with the creation of the directories, the certificate and the htpasswd  *)
(* file; then tls.yaml, docker-compose.yml and the test-page files; then   *)
(* the network; then `up`; then the test page and its cleanup.  No prompt  *)
(* occurs before the Docker check has passed or after tls.yaml is written. *)
C3_DockerCheckFirst ==
    \A ph \in {[i \in TraceIdx |-> CodePhase(trace[i])]} :
        \A j \in TraceIdx : \A i \in 1..(j - 1) :
            (ph[i] # 0 /\ ph[j] # 0) => ph[i] <= ph[j]

C3_Witness ==
    /\ pc = "done"
    /\ resolver_choice = "3"
    /\ Has(Ev("cmd", "nohup"))

(* C4: with `docker network ls` working, `docker network create traefik`   *)
(* is invoked exactly when no network named traefik exists.                *)
C4_CreateIffAbsent ==
    /\ (pc = "setup_docker_network:create" /\ lastCmd.outcome = "ok")
           => (N_TRAEFIK \notin networks)
    /\ Has(Ev("log", "Docker network 'traefik' already exists"))
           => (N_TRAEFIK \in networks)

CleanupRank(p) ==
    IF p = "none" THEN 0
    ELSE IF p = "sleeping" THEN 1
    ELSE IF p = "rm_dir" THEN 2
    ELSE IF p = "rm_script" THEN 3
    ELSE 4

C5_ScheduledOnlyAfterUp ==
    /\ \A j \in TraceIdx :
         trace[j] \in {Ev("write", TEST_SCRIPT_PATH), Ev("cmd", "chmod +x"), Ev("cmd", "nohup")}
            => \E i \in 1..(j - 1) : trace[i] = Ev("log", "Test page deployed")
    /\ Cardinality({j \in TraceIdx : trace[j] = Ev("cmd", "nohup")}) <= 1
    /\ (cleanup[run].pc # "none") => Has(Ev("cmd", "nohup"))
    /\ \A r \in Runs : r > run => cleanup[r].pc = "none"

C5_StepsOnce ==
    \A r \in Runs :
        /\ CleanupRank(cleanup'[r].pc) \in {CleanupRank(cleanup[r].pc), CleanupRank(cleanup[r].pc) + 1}
        /\ (cleanup[r].pc = "sleeping" /\ cleanup'[r].pc = "rm_dir") => cleanup[r].remaining = 0
        /\ (cleanup[r].pc = "rm_dir" /\ cleanup'[r].pc = "rm_script")
               => (fs' \cap {TEST_COMPOSE_PATH, TEST_INDEX_FILE, TEST_COMPOSE_FILE} = {})
        /\ (cleanup[r].pc = "rm_script" /\ cleanup'[r].pc = "done")
               => (TEST_SCRIPT_PATH \notin fs')

(* C5: the removal script is written and launched only after the test      *)
(* page's `up` succeeded, at most once per run; a launched cleanup goes    *)
(* through sleep, `docker compose down`, rm -rf of the test directory and  *)
(* rm -f of the script, each once and in this order, and every launched    *)
(* cleanup has eventually run to its end.                                  *)
C5_DeferredCleanup ==
    /\ []C5_ScheduledOnlyAfterUp
    /\ [][C5_StepsOnce]_vars
    /\ <>[](\A r \in Runs : cleanup[r].pc \in {"none", "done"})

C5_Witness ==
    /\ cleanup[run].pc = "done"
    /\ TEST_SCRIPT_PATH \notin fs
    /\ "nginx-test" \notin containers

(* C6 as stated: every external command goes through run_command, never   *)
(* raises, and is logged when it fails.                                    *)
C6_AllThroughRunCommand ==
    (lastCmd.name # "none") =>
        /\ lastCmd.via = "run_command"
        /\ ~lastCmd.raised
        /\ (lastCmd.outcome # "ok") => (lastCmd.logged # "none")

(* C6 amended: a command invoked through run_command never raises; when it *)
(* fails or cannot be started a message is logged, and the run continues   *)
(* unless the call site is a fatal check.  `htpasswd -nb` and `docker      *)
(* network ls` are invoked with a bare subprocess.run: their failure is    *)
(* not logged, and failing to start them ends the run with an uncaught     *)
(* exception.                                                              *)
C6_RunCommandContains ==
    /\ (lastCmd.via = "run_command") =>
          /\ ~lastCmd.raised
          /\ pc # "crashed"
          /\ (lastCmd.outcome # "ok") =>
                /\ lastCmd.logged \in {"Command failed", "Unexpected error"}
                /\ (pc = "exit1") <=> (lastCmd.name \in FatalChecks)
    /\ (lastCmd.via = "subprocess.run") =>
          /\ lastCmd.name \in {"htpasswd -nb", "docker network ls"}
          /\ lastCmd.logged = "none"
          /\ lastCmd.raised <=> (lastCmd.outcome = "nostart")
          /\ lastCmd.raised => (pc = "crashed")
    /\ lastCmd.via \in {"none", "run_command", "subprocess.run"}

C6_Witness ==
    /\ lastCmd.name = "openssl req"
    /\ lastCmd.outcome = "nostart"
    /\ pc = "create_htpasswd"

LeMarks == { <<"--certificatesresolvers.le.acme.storage", "/letsencrypt/acme.json">>,
             <<"--certificatesresolvers.le.acme.httpchallenge.entrypoint", "web">>,
             <<"--entrypoints.websecure.http.tls.certresolver", "le">> }
CfMarks == { <<"--certificatesresolvers.cf.acme.storage", "/letsencrypt/acme.json">>,
             <<"--certificatesresolvers.cf.acme.dnschallenge.provider", "cloudflare">>,
             <<"--certificatesresolvers.cf.acme.dnschallenge.delaybeforecheck", "0">>,
             <<"--entrypoints.websecure.http.tls.certresolver", "cf">> }
Args(file) == {<<l[2], l[3]>> : l \in {m \in Lines(file) : m[1] = "command"}}
ResolverKeys == {"--certificatesresolvers.le.acme.email", "--certificatesresolvers.cf.acme.email",
                 "--entrypoints.websecure.http.tls.certresolver"}

(* C7: the docker-compose.yml a run writes has the Let's Encrypt lines      *)
(* exactly when the choice is 2, the Cloudflare lines with both            *)
(* environment entries exactly when the choice is 3, and no resolver or    *)
(* environment line otherwise; no Cloudflare credential is in the file     *)
(* unless the choice is 3.                                                 *)
C7_ResolverBranch ==
    Has(Ev("write", COMPOSE_FILE)) =>
        LET a == Args(composeFile)
            env == {m \in Lines(composeFile) : m[1] = "environment"}
        IN
        /\ (resolver_choice = "2") =>
              /\ LeMarks \subseteq a
              /\ <<"--certificatesresolvers.le.acme.email", email>> \in a
        /\ (resolver_choice # "2") =>
              /\ LeMarks \cap a = {}
              /\ "--certificatesresolvers.le.acme.email" \notin Keys(composeFile, "command")
        /\ (resolver_choice = "3") =>
              /\ CfMarks \subseteq a
              /\ <<"--certificatesresolvers.cf.acme.email", email>> \in a
              /\ env = { <<"environment", "CF_API_EMAIL", cf_email>>,
                         <<"environment", "CF_DNS_API_TOKEN", cf_token>> }
        /\ (resolver_choice # "3") =>
              /\ CfMarks \cap a = {}
              /\ "--certificatesresolvers.cf.acme.email" \notin Keys(composeFile, "command")
              /\ env = {}
              /\ \A l \in Lines(composeFile) : l[3] \notin (CfEmailInputs \cup CfTokenInputs)
        /\ (resolver_choice \notin {"2", "3"}) =>
              Keys(composeFile, "command") \cap ResolverKeys = {}

C7_Witness ==
    /\ Has(Ev("write", COMPOSE_FILE))
    /\ resolver_choice = "3"
    /\ <<"environment", "CF_DNS_API_TOKEN", "cf-token">> \in Lines(composeFile)

(* C8: a run in which the user was asked for and gave no test domain       *)
(* writes no test-page file, deploys no nginx-test container, schedules no *)
(* cleanup and ends reporting that only Traefik is running.                *)
C8_NoTestPageWithoutTestDomain ==
    ~Has(Ev("prompt", "test domain")) =>
        /\ ~Has(Ev("write", TEST_INDEX_FILE))
        /\ ~Has(Ev("write", TEST_COMPOSE_FILE))
        /\ ~Has(Ev("cmd", "compose up test"))
        /\ ~Has(Ev("write", TEST_SCRIPT_PATH))
        /\ (pc = "done") => (<<"No test domain provided", "only Traefik is running">>
                                \in Lines(summary))

(* The networks the artifacts of a run name.                               *)
NamedNetworks ==
    {NetName("traefik")}
    \cup {NetName(l[3]) : l \in {m \in Lines(composeFile) :
             \/ m[1] = "services.traefik.networks"
             \/ (m[1] = "command" /\ m[2] = "--providers.docker.network")}}
    \cup {NetName(l[3]) : l \in {m \in Lines(testComposeFile) :
             m[1] = "services.nginx-test.networks"}}
    \cup {NetName(l[2]) : l \in {m \in Lines(summary) : m[1] = "Docker network"}}

(* C9: the network setup_docker_network creates, the one Traefik joins and *)
(* watches, the one nginx-test joins and the one in the summary are the    *)
(* same network.                                                           *)
C9_OneNetwork ==
    (pc = "done") => (Cardinality(NamedNetworks) = 1)

(* C10: while the cleanup of the latest run is still sleeping, the test    *)
(* page that run deployed is running and its directory, files and cleanup  *)
(* script exist.                                                           *)
C10_LaterPageSurvives ==
    (cleanup[run].pc = "sleeping" /\ cleanup[run].remaining > 0) =>
        /\ "nginx-test" \in containers
        /\ {TEST_COMPOSE_PATH, TEST_INDEX_FILE, TEST_COMPOSE_FILE, TEST_SCRIPT_PATH} \subseteq fs
=============================================================================
